---- MODULE Spec2Model ----
(***************************************************************************)
(* Model of @typhonjs-node-rollup/plugin-replace.                          *)
(*                                                                         *)
(* The program is the current revision of the loader, PluginLoader         *)
(* (src/unnamed/part_002, the ES-module revision that the init hook        *)
(* src/src/hooks/bundle-load-plugins.js imports), together with that hook. *)
(*                                                                         *)
(* Strings are sequences of symbols.  A symbol is one character ("a", "b", *)
(* "=", the line terminator "\n") or a whole property name written as one  *)
(* symbol ("toString", "delimiters", "preventAssignment"): a run of        *)
(* ordinary characters that contains neither "=" nor a line terminator.    *)
(***************************************************************************)
EXTENDS Integers, Sequences, FiniteSets, TLC

\* ------------------------------------------------------------------ bounds
\* Longest single entry string (in symbols) given alone on the command line.
MaxLen == 4
\* Most entries of a flag array.
MaxEntries == 3
\* Longest text (in JSON tokens) of the environment variable.
MaxTokens == 4

\* ------------------------------------------------------------------ strings
LT == "\n"
EQ == "="

\* Names every object inherits from Object.prototype; `k in {}` is true for them.
ObjectPrototypeNames == {<<"toString">>}

\* Property names the loader itself writes on the map.
DelimitersKey == <<"delimiters">>
PreventAssignmentKey == <<"preventAssignment">>

PlainChars == {"a", "b"}
Chars == PlainChars \cup {EQ, LT, "toString", "delimiters", "preventAssignment"}

StringsUpTo(S, n) == UNION {[1..m -> S] : m \in 0..n}

\* JavaScript values held in a property of the map.
StrVal(s) == [t |-> "string", s |-> s]
DelimitersVal == [t |-> "array", s |-> <<>>]       \* the array ['', '']
TrueVal == [t |-> "true", s |-> <<>>]

EmptyProps == [k \in {} |-> TrueVal]

\* ------------------------------------------------------------------ regex
\* /(.+)=(.+)/ : `.` matches every symbol but a line terminator.
Dot(c) == c # LT

\* A match that starts at i with the separator at j: s[i..j-1] is group 1.
SepAt(s, i, j) ==
    /\ i < j
    /\ j < Len(s)
    /\ s[j] = EQ
    /\ \A k \in i..(j - 1) : Dot(s[k])
    /\ Dot(s[j + 1])

MatchStarts(s) == {i \in 1..Len(s) : \E j \in 1..Len(s) : SepAt(s, i, j)}

Min(S) == CHOOSE x \in S : \A y \in S : x <= y
Max(S) == CHOOSE x \in S : \A y \in S : x >= y

\* Mutant of RegexExec: the first group is lazy, /(.+?)=(.+)/.
RegexExec_LazyKey(s) ==
    IF MatchStarts(s) = {} THEN [matched |-> FALSE, g1 |-> <<>>, g2 |-> <<>>]
    ELSE LET i == Min(MatchStarts(s))
             j == Min({x \in 1..Len(s) : SepAt(s, i, x)})
             e == Max({x \in (j + 1)..Len(s) : \A k \in (j + 1)..x : Dot(s[k])})
         IN  [matched |-> TRUE, g1 |-> SubSeq(s, i, j - 1), g2 |-> SubSeq(s, j + 1, e)]

\* regex.exec(entry): null, or the leftmost match with both groups greedy.
RegexExec(s) ==
    IF MatchStarts(s) = {} THEN [matched |-> FALSE, g1 |-> <<>>, g2 |-> <<>>]
    ELSE LET i == Min(MatchStarts(s))
             j == Max({x \in 1..Len(s) : SepAt(s, i, x)})
             e == Max({x \in (j + 1)..Len(s) : \A k \in (j + 1)..x : Dot(s[k])})
         IN  [matched |-> TRUE, g1 |-> SubSeq(s, i, j - 1), g2 |-> SubSeq(s, j + 1, e)]

\* `key in obj` for an object literal: own properties and inherited ones.
HasProperty(props, key) == key \in DOMAIN props \/ key \in ObjectPrototypeNames

\* obj[key] = val (ordinary own data property).
SetProp(props, key, val) ==
    [k \in (DOMAIN props) \cup {key} |-> IF k = key THEN val ELSE props[k]]

\* ------------------------------------------------------------------ verify
\* The forEach of verify over the first n entries of the array:
\* the accumulated entries object, badEntries and warnEntries.
RECURSIVE Scan(_, _)
Scan(arr, n) ==
    IF n = 0 THEN [entries |-> EmptyProps, bad |-> <<>>, warn |-> <<>>]
    ELSE LET acc == Scan(arr, n - 1)
             entry == arr[n]
             matches == RegexExec(entry)
         IN  IF matches.matched
             THEN IF HasProperty(acc.entries, matches.g1)
                  THEN [acc EXCEPT !.warn = Append(@, entry)]
                  ELSE [acc EXCEPT !.entries = SetProp(@, matches.g1, StrVal(matches.g2))]
             ELSE [acc EXCEPT !.bad = Append(@, entry)]

\* Segments of an error message, in order.
Seg(t, list) == [t |-> t, list |-> list]
Preface == Seg("plugin-replace verification failure:\n", <<>>)
BadSeg(bad) == Seg("- can not parse <list> each entry must be a 'string' in the format of '<xxx>=<yyy>'.", bad)
NewLine == Seg("\n", <<>>)
WarnSeg(warn) == Seg("- the following entries overwrite previous entries <list>.", warn)

ErrorMessage(bad, warn) ==
    <<Preface>>
    \o (IF Len(bad) > 0 THEN <<BadSeg(bad)>> ELSE <<>>)
    \o (IF Len(warn) > 0
        THEN (IF Len(bad) > 0 THEN <<NewLine>> ELSE <<>>) \o <<WarnSeg(warn)>>
        ELSE <<>>)

\* ------------------------------------------------------------------ JSON
\* The text of the environment variable is a sequence of JSON tokens.
Tok(t, s) == [t |-> t, s |-> s]
StringTokens == {Tok("str", <<"a", EQ, "a">>), Tok("str", <<"a">>)}
Tokens == {Tok("[", <<>>), Tok("]", <<>>), Tok(",", <<>>), Tok("{", <<>>), Tok("}", <<>>)}
          \cup StringTokens

\* JSON values: a string, the empty object, an array of values.
JString(s) == [t |-> "string", s |-> s, c |-> <<>>]
JObject == [t |-> "object", s |-> <<>>, c |-> <<>>]
JArray(c) == [t |-> "array", s |-> <<>>, c |-> c]

ParseFail == [ok |-> FALSE, v |-> JObject, n |-> 0]
ParseOk(v, n) == [ok |-> TRUE, v |-> v, n |-> n]

RECURSIVE ParseValue(_, _)
RECURSIVE ParseElements(_, _, _)
\* One value starting at token i; n is the index after it.
ParseValue(toks, i) ==
    IF i > Len(toks) THEN ParseFail
    ELSE CASE toks[i].t = "str" -> ParseOk(JString(toks[i].s), i + 1)
           [] toks[i].t = "{" ->
                IF i + 1 <= Len(toks) /\ toks[i + 1].t = "}"
                THEN ParseOk(JObject, i + 2) ELSE ParseFail
           [] toks[i].t = "[" ->
                IF i + 1 <= Len(toks) /\ toks[i + 1].t = "]"
                THEN ParseOk(JArray(<<>>), i + 2)
                ELSE ParseElements(toks, i + 1, <<>>)
           [] OTHER -> ParseFail

\* The elements of an array after "[": value ("," value)* "]".
ParseElements(toks, i, acc) ==
    LET r == ParseValue(toks, i)
    IN  IF ~r.ok \/ r.n > Len(toks) THEN ParseFail
        ELSE IF toks[r.n].t = "]" THEN ParseOk(JArray(Append(acc, r.v)), r.n + 1)
        ELSE IF toks[r.n].t = "," THEN ParseElements(toks, r.n + 1, Append(acc, r.v))
        ELSE ParseFail

\* JSON.parse(text): a value, or a SyntaxError.
JsonParse(toks) ==
    LET r == ParseValue(toks, 1)
    IN  IF r.ok /\ r.n = Len(toks) + 1 THEN [ok |-> TRUE, v |-> r.v]
        ELSE [ok |-> FALSE, v |-> JObject]

\* Array.isArray(result)
IsArray(v) == v.t = "array"

\* ------------------------------------------------------------------ state
VARIABLES
    cmd,        \* options.id handed to the init hook ("none" before it runs)
    pc,         \* progress of onPluginLoad
    hookDone,   \* the init hook has returned to the host
    subscribed, \* channels PluginLoader.getInputPlugin is subscribed on
    published,  \* payloads triggered on the flag handler channel, in order
    env,        \* process.env[`${prefix}_REPLACE`]
    flags,      \* flags.replace
    last,       \* the last call of default / verify / getInputPlugin and its outcome
    verified    \* how verify ended when it was given the array: "no" before that call

vars == <<cmd, pc, hookDone, subscribed, published, env, flags, last, verified>>

CommandIds == {"bundle", "build", "other"}

InputChannel == "typhonjs:oclif:bundle:plugins:main:input:get"
FlagChannel == "typhonjs:oclif:handler:flag:add"

\* The payload addFlags triggers: the command the flag belongs to and the plugin.
FlagPayload == [command |-> "bundle", pluginName |-> "@typhonjs-node-rollup/plugin-replace",
                flags |-> {"replace"}, verify |-> TRUE]

\* Values of flags.replace (and of bundleData.cliFlags.replace).
Undefined == [kind |-> "undefined", items |-> <<>>, props |-> EmptyProps]
Null == [kind |-> "null", items |-> <<>>, props |-> EmptyProps]
ArrayOf(items) == [kind |-> "array", items |-> items, props |-> EmptyProps]
ObjectOf(props) == [kind |-> "object", items |-> <<>>, props |-> props]

\* typeof x === 'object'
TypeofObject(x) == x.kind \in {"array", "object", "null"}

\* Outcomes of a call.
NoError == [type |-> "none", msg |-> <<>>]
NonFatalError(msg) == [type |-> "NonFatalError", msg |-> msg]
TypeError == [type |-> "TypeError", msg |-> <<>>]

NoValue == JObject
NoCall == [op |-> "none", arg |-> "none", before |-> Undefined, thrown |-> NoError,
           ret |-> "none", value |-> NoValue, config |-> Undefined, matches |-> <<>>]

EnvUnset == [set |-> FALSE, text |-> <<>>]
EnvText(toks) == [set |-> TRUE, text |-> toks]

\* ------------------------------------------------------------------ inputs
\* Single entries given alone on the command line.
Entries == StringsUpTo(Chars, MaxLen)

\* Entries of the arrays with more than one entry.
Pool == {<<"a", EQ, "a">>, <<"a", EQ, "b">>, <<"b", EQ, "a">>, <<"a">>, <<EQ, "a">>}
        \cup {<<n, EQ, "a">> : n \in {"toString", "delimiters", "preventAssignment"}}

InputArrays == {<<>>} \cup {<<e>> : e \in Entries}
               \cup UNION {[1..m -> Pool] : m \in 1..MaxEntries}

EnvTexts == StringsUpTo(Tokens, MaxTokens)

\* ------------------------------------------------------------------ actions
Init ==
    /\ cmd = "none"
    /\ pc = "boot"
    /\ hookDone = FALSE
    /\ subscribed = {}
    /\ published = <<>>
    /\ env = EnvUnset
    /\ flags = Undefined
    /\ last = NoCall
    /\ verified = "no"

\* The init hook: pluginManager.add(...) calls onPluginLoad, which subscribes the
\* input handler and suspends at `await import(...)`; the hook does not await it.
Hook(id) ==
    /\ pc = "boot"
    /\ cmd' = id
    /\ subscribed' = subscribed \cup {InputChannel}
    /\ pc' = "awaitImport"
    /\ hookDone' = TRUE
    /\ UNCHANGED <<published, env, flags, last, verified>>

\* Mutant of AddFlags: nothing is triggered on the flag handler channel.
AddFlags_NoTrigger(pub) == pub

\* addFlags(eventbus, flags): one trigger on the flag handler channel.
AddFlags(pub) == Append(pub, FlagPayload)

\* The import of the flags module resolves: onPluginLoad resumes and calls addFlags.
ImportResolved ==
    /\ pc = "awaitImport"
    /\ published' = AddFlags(published)
    /\ pc' = "registered"
    /\ UNCHANGED <<cmd, hookDone, subscribed, env, flags, last, verified>>

\* The import rejects: the promise of onPluginLoad rejects, addFlags is not called.
ImportRejected ==
    /\ pc = "awaitImport"
    /\ pc' = "importFailed"
    /\ UNCHANGED <<cmd, hookDone, subscribed, published, env, flags, last, verified>>

\* The bundle command parses its flags once the flag is registered.
Parsing == pc = "registered" /\ cmd = "bundle"

\* Nothing has been parsed or called yet.
Fresh == Parsing /\ ~env.set /\ flags.kind = "undefined" /\ last.op = "none"

\* dotenv loads the *.env file: the variable gets its text.
LoadEnv ==
    /\ Fresh
    /\ \E text \in EnvTexts : env' = EnvText(text)
    /\ UNCHANGED <<cmd, pc, hookDone, subscribed, published, flags, last, verified>>

\* --replace given on the command line: oclif collects the values in an array.
ParseArgv ==
    /\ Fresh
    /\ \E arr \in InputArrays : flags' = ArrayOf(arr)
    /\ UNCHANGED <<cmd, pc, hookDone, subscribed, published, env, last, verified>>

CouldNotParse == <<Seg("Could not parse '<prefix>_REPLACE' as a JSON array;\n", <<>>),
                   Seg("<error.message>", <<>>)>>
PleaseFormat == <<Seg("Please format '<prefix>_REPLACE' as a JSON array.", <<>>)>>

\* Mutant of DefaultFn: the Array.isArray check is missing.
DefaultFn_NoArrayCheck(context, e) ==
    LET envVars == IF context = "null" THEN EnvUnset ELSE e
        parsed == JsonParse(envVars.text)
    IN  IF envVars.set
        THEN IF ~parsed.ok
             THEN [ret |-> "throw", thrown |-> NonFatalError(CouldNotParse), value |-> NoValue]
             ELSE [ret |-> "value", thrown |-> NoError, value |-> parsed.v]
        ELSE [ret |-> "undefined", thrown |-> NoError, value |-> NoValue]

\* The `default` function of the replace flag.
DefaultFn(context, e) ==
    LET envVars == IF context = "null" THEN EnvUnset ELSE e
        parsed == JsonParse(envVars.text)
    IN  IF envVars.set
        THEN IF ~parsed.ok
             THEN [ret |-> "throw", thrown |-> NonFatalError(CouldNotParse), value |-> NoValue]
             ELSE IF ~IsArray(parsed.v)
             THEN [ret |-> "throw", thrown |-> NonFatalError(PleaseFormat), value |-> NoValue]
             ELSE [ret |-> "value", thrown |-> NoError, value |-> parsed.v]
        ELSE [ret |-> "undefined", thrown |-> NoError, value |-> NoValue]

AllStrings(v) == \A i \in 1..Len(v.c) : v.c[i].t = "string"

\* The flag was not given: oclif calls default(context) and, when it returns an
\* array of strings, stores it as the flag's value.
Default(context) ==
    /\ Parsing
    /\ flags.kind = "undefined"
    /\ LET r == DefaultFn(context, env)
       IN  /\ last' = [NoCall EXCEPT !.op = "default", !.arg = context, !.before = flags,
                                     !.thrown = r.thrown, !.ret = r.ret, !.value = r.value]
           /\ flags' = IF r.ret = "value" /\ AllStrings(r.value)
                       THEN ArrayOf([i \in 1..Len(r.value.c) |-> r.value.c[i].s])
                       ELSE flags
    /\ UNCHANGED <<cmd, pc, hookDone, subscribed, published, env, verified>>

\* The `matches` of every entry of the array, in order (none when it is no array).
ExecAll(f) ==
    IF f.kind = "array" THEN [i \in 1..Len(f.items) |-> RegexExec(f.items[i])] ELSE <<>>

\* Mutant of VerifyFn: the error is raised before flags.replace is assigned.
VerifyFn_ThrowBeforeStore(f) ==
    IF f.kind = "array"
    THEN LET r == Scan(f.items, Len(f.items))
             errorMessage == ErrorMessage(r.bad, r.warn)
         IN  IF errorMessage # <<Preface>>
             THEN [flags |-> f, thrown |-> NonFatalError(errorMessage)]
             ELSE [flags |-> ObjectOf(SetProp(r.entries, DelimitersKey, DelimitersVal)),
                   thrown |-> NoError]
    ELSE [flags |-> f, thrown |-> NoError]

\* Mutant of VerifyFn: the delimiters are added after the error check.
VerifyFn_MarkOnSuccess(f) ==
    IF f.kind = "array"
    THEN LET r == Scan(f.items, Len(f.items))
             errorMessage == ErrorMessage(r.bad, r.warn)
         IN  IF errorMessage # <<Preface>>
             THEN [flags |-> ObjectOf(r.entries), thrown |-> NonFatalError(errorMessage)]
             ELSE [flags |-> ObjectOf(SetProp(r.entries, DelimitersKey, DelimitersVal)),
                   thrown |-> NoError]
    ELSE [flags |-> f, thrown |-> NoError]

\* verify(flags): the value left in flags.replace and the error raised.
\* Mutant of VerifyFn: no Array.isArray test, a value that is no array is handled
\* as an array without entries.
VerifyFn_NoArrayTest(f) ==
    LET items == IF f.kind = "array" THEN f.items ELSE <<>>
        r == Scan(items, Len(items))
        errorMessage == ErrorMessage(r.bad, r.warn)
    IN  [flags |-> ObjectOf(SetProp(r.entries, DelimitersKey, DelimitersVal)),
         thrown |-> IF errorMessage # <<Preface>> THEN NonFatalError(errorMessage)
                    ELSE NoError]

VerifyFn(f) ==
    IF f.kind = "array"
    THEN LET r == Scan(f.items, Len(f.items))
             errorMessage == ErrorMessage(r.bad, r.warn)
         IN  [flags |-> ObjectOf(SetProp(r.entries, DelimitersKey, DelimitersVal)),
              thrown |-> IF errorMessage # <<Preface>> THEN NonFatalError(errorMessage)
                         ELSE NoError]
    ELSE [flags |-> f, thrown |-> NoError]

Verify ==
    /\ Parsing
    /\ LET r == VerifyFn(flags)
       IN  /\ flags' = r.flags
           /\ last' = [NoCall EXCEPT !.op = "verify", !.arg = "flags", !.before = flags,
                                     !.thrown = r.thrown, !.matches = ExecAll(flags),
                                     !.ret = IF r.thrown = NoError THEN "undefined" ELSE "throw"]
           /\ verified' = IF flags.kind # "array" THEN verified
                          ELSE IF r.thrown = NoError THEN "returned" ELSE "raised"
    /\ UNCHANGED <<cmd, pc, hookDone, subscribed, published, env>>

\* The shapes of bundleData the bundler hands to the input handler.
BundleDataShapes == {"undefined", "empty", "cliFlags", "replaceNull"}

\* bundleData.cliFlags.replace for a shape (Undefined when cliFlags is missing).
ReplaceOf(shape, f) ==
    CASE shape = "cliFlags" -> f
      [] shape = "replaceNull" -> Null
      [] OTHER -> Undefined

\* getInputPlugin(bundleData): what replace() is called with, or no call.
GetInputPluginFn(shape, f) ==
    LET rep == ReplaceOf(shape, f)
    IN  IF shape \in {"cliFlags", "replaceNull"} /\ TypeofObject(rep)
        THEN IF rep.kind = "null"
             THEN [ret |-> "throw", thrown |-> TypeError, config |-> Undefined]
             ELSE [ret |-> "plugin", thrown |-> NoError,
                   config |-> [rep EXCEPT !.props = SetProp(@, PreventAssignmentKey, TrueVal)]]
        ELSE [ret |-> "undefined", thrown |-> NoError, config |-> Undefined]

\* The bundler triggers the input channel; Object.assign writes on flags.replace itself.
GetInputPlugin(shape) ==
    /\ Parsing
    /\ InputChannel \in subscribed
    /\ LET r == GetInputPluginFn(shape, flags)
       IN  /\ last' = [NoCall EXCEPT !.op = "getInputPlugin", !.arg = shape, !.before = flags,
                                     !.thrown = r.thrown, !.ret = r.ret, !.config = r.config]
           /\ flags' = IF r.ret = "plugin" THEN r.config ELSE flags
    /\ UNCHANGED <<cmd, pc, hookDone, subscribed, published, env, verified>>

Next ==
    \/ \E id \in CommandIds : Hook(id)
    \/ ImportResolved
    \/ ImportRejected
    \/ LoadEnv
    \/ ParseArgv
    \/ \E context \in {"null", "context"} : Default(context)
    \/ Verify
    \/ \E shape \in BundleDataShapes : GetInputPlugin(shape)

Spec == Init /\ [][Next]_vars

\* ------------------------------------------------------------------ claims
\* What the claims say about an input array, stated without the loader's own tests.
Matches(e) == RegexExec(e).matched
KeyOf(e) == RegexExec(e).g1
ValueOf(e) == RegexExec(e).g2

EqPositions(e) == {j \in 1..Len(e) : e[j] = EQ}
\* key=value on one line with exactly one "=", a non-empty key and a non-empty value.
SimpleEntry(e) ==
    /\ Cardinality(EqPositions(e)) = 1
    /\ \A k \in 1..Len(e) : e[k] # LT
    /\ \A j \in EqPositions(e) : 1 < j /\ j < Len(e)
LeftOf(e) == SubSeq(e, 1, Min(EqPositions(e)) - 1)
RightOf(e) == SubSeq(e, Min(EqPositions(e)) + 1, Len(e))

\* Entry i repeats the key of an earlier well-formed entry.
Repeats(items, i) ==
    Matches(items[i]) /\ \E j \in 1..(i - 1) : Matches(items[j]) /\ KeyOf(items[j]) = KeyOf(items[i])

RECURSIVE Pick(_, _, _)
\* The entries among the first n that satisfy Test(items, i), in input order.
Pick(Test(_, _), items, n) ==
    IF n = 0 THEN <<>>
    ELSE IF Test(items, n) THEN Append(Pick(Test, items, n - 1), items[n])
    ELSE Pick(Test, items, n - 1)

IsMalformed(items, i) == ~Matches(items[i])
MalformedOf(items) == Pick(IsMalformed, items, Len(items))
DuplicatesOf(items) == Pick(Repeats, items, Len(items))

FirstWith(items, k) == Min({i \in 1..Len(items) : Matches(items[i]) /\ KeyOf(items[i]) = k})

\* The list a message reports in its segment t (empty when it has no such segment).
ListIn(msg, t) ==
    LET S == {i \in 1..Len(msg) : msg[i].t = t}
    IN  IF S = {} THEN <<>> ELSE msg[Min(S)].list

VerifiedArray == last.op = "verify" /\ last.before.kind = "array"
Input == last.before.items

\* C1: verify of an array of well-formed entries key=value with pairwise distinct keys
\* raises no error and leaves a map that holds, for every entry, its key with exactly
\* its right-hand string, whatever the key is.
C1_WellFormedDistinctGiveMap ==
    (/\ VerifiedArray
     /\ \A i \in 1..Len(Input) : SimpleEntry(Input[i])
     /\ \A i, j \in 1..Len(Input) : i # j => LeftOf(Input[i]) # LeftOf(Input[j]))
    => /\ last.thrown = NoError
       /\ \A i \in 1..Len(Input) :
            /\ LeftOf(Input[i]) \in DOMAIN flags.props
            /\ flags.props[LeftOf(Input[i])] = StrVal(RightOf(Input[i]))

\* C2: verify of an array raises the NonFatalError if and only if some entry is
\* malformed or some entry repeats the key of an earlier entry of the array.
C2_ErrorIffMalformedOrRepeated ==
    VerifiedArray
    => ((last.thrown.type = "NonFatalError")
        <=> (\E i \in 1..Len(Input) : ~Matches(Input[i]) \/ Repeats(Input, i)))

\* C3: after verify of an array the map holds, for each key, the value of the first
\* well-formed entry with that key, and the error reports exactly the later
\* well-formed entries with an already seen key, in input order.
C3_FirstWinsLaterReported ==
    VerifiedArray
    => /\ \A i \in 1..Len(Input) :
            Matches(Input[i])
            => /\ KeyOf(Input[i]) \in DOMAIN flags.props
               /\ flags.props[KeyOf(Input[i])]
                    = StrVal(ValueOf(Input[FirstWith(Input, KeyOf(Input[i]))]))
       /\ ListIn(last.thrown.msg, WarnSeg(<<>>).t) = DuplicatesOf(Input)

\* C4: the message of a failing verification is the preface, then (if any entry is
\* malformed) one section with exactly the malformed entries in input order, then
\* (if any entry is a duplicate) one section with exactly the duplicate entries in
\* input order, the two sections separated by exactly one newline.
C4_MessageSections ==
    (VerifiedArray /\ last.thrown.type = "NonFatalError")
    => LET msg == last.thrown.msg
           M == MalformedOf(Input)
           D == DuplicatesOf(Input)
       IN  /\ msg[1] = Preface
           /\ M # <<>> => Len(msg) >= 2 /\ msg[2] = BadSeg(M)
           /\ D # <<>> => msg[Len(msg)] = WarnSeg(D)
           /\ (M # <<>> /\ D # <<>>) => msg = <<Preface, BadSeg(M), NewLine, WarnSeg(D)>>

CalledDefault == last.op = "default"
EnvParsed == JsonParse(env.text)

\* C5: the default function returns undefined when the variable is unset, raises the
\* NonFatalError naming the variable with the parse error text when it is set to
\* invalid JSON, raises the NonFatalError asking for a JSON array when it is set to
\* JSON that is not an array, and returns the parsed array unchanged when it is set
\* to a JSON array, in every case where the variable is set.
C5_DefaultFollowsEnv ==
    CalledDefault
    => /\ ~env.set => last.ret = "undefined"
       /\ (env.set /\ ~EnvParsed.ok) => last.thrown = NonFatalError(CouldNotParse)
       /\ (env.set /\ EnvParsed.ok /\ ~IsArray(EnvParsed.v))
            => last.thrown = NonFatalError(PleaseFormat)
       /\ (env.set /\ EnvParsed.ok /\ IsArray(EnvParsed.v))
            => last.ret = "value" /\ last.value = EnvParsed.v

\* C5 as amended: the four cases hold when default is called with a context; called
\* with context null it does not read the environment and returns undefined, also
\* when the variable is set.
C5_DefaultFollowsEnvGivenContext ==
    CalledDefault
    => /\ (~env.set \/ last.arg = "null") => last.ret = "undefined" /\ last.thrown = NoError
       /\ (last.arg # "null" /\ env.set /\ ~EnvParsed.ok)
            => last.ret = "throw" /\ last.thrown = NonFatalError(CouldNotParse)
       /\ (last.arg # "null" /\ env.set /\ EnvParsed.ok /\ ~IsArray(EnvParsed.v))
            => last.ret = "throw" /\ last.thrown = NonFatalError(PleaseFormat)
       /\ (last.arg # "null" /\ env.set /\ EnvParsed.ok /\ IsArray(EnvParsed.v))
            => last.ret = "value" /\ last.thrown = NoError /\ last.value = EnvParsed.v

\* C5 witness: default called with a context returned a non-empty array parsed from
\* the variable.
C5_Witness ==
    /\ CalledDefault
    /\ last.arg = "context"
    /\ env.set
    /\ last.ret = "value"
    /\ Len(last.value.c) > 0

CalledFactory == last.op = "getInputPlugin"

\* C6: given a normalized map in cliFlags.replace, the configuration handed to the
\* replacement transform contains every key -> value entry of the map together with
\* preventAssignment set to true.
C6_ConfigHoldsMapAndSafety ==
    (CalledFactory /\ last.arg = "cliFlags" /\ last.before.kind = "object")
    => /\ last.ret = "plugin"
       /\ \A k \in DOMAIN last.before.props :
            k \in DOMAIN last.config.props /\ last.config.props[k] = last.before.props[k]
       /\ PreventAssignmentKey \in DOMAIN last.config.props
       /\ last.config.props[PreventAssignmentKey] = TrueVal

\* C7: when cliFlags is absent, or cliFlags.replace is absent, still the raw array
\* or null, the factory returns nothing and does not call the replacement transform.
C7_NothingUnlessNormalized ==
    (/\ CalledFactory
     /\ \/ last.arg \in {"undefined", "empty"}
        \/ ReplaceOf(last.arg, last.before).kind \in {"undefined", "array", "null"})
    => last.ret = "undefined" /\ last.thrown = NoError

\* C8: on every load the input handler is subscribed, and the flag definition is
\* published to the flag handler only when the command being run is 'bundle'.
C8_PublishedOnlyForBundle ==
    /\ cmd # "none" => InputChannel \in subscribed
    /\ published # <<>> => cmd = "bundle"

\* C8 as amended: on every load the input handler is subscribed, and once the import
\* of the flags module has resolved the flag definition with its verify callback has
\* been published exactly once, whatever command is being run; the payload names
\* 'bundle' as the command the flag belongs to.
C8_PublishedForEveryCommand ==
    /\ cmd # "none" => InputChannel \in subscribed
    /\ pc = "registered" => published = <<FlagPayload>>
    /\ pc # "registered" => published = <<>>
    /\ \A i \in 1..Len(published) : published[i].command = "bundle" /\ published[i].verify

\* C8 witness: the flag definition was published while a command other than bundle runs.
C8_Witness == cmd = "build" /\ pc = "registered" /\ Len(published) = 1

HasMarker(f) == DelimitersKey \in DOMAIN f.props /\ f.props[DelimitersKey] = DelimitersVal

\* C10: the map stored by verify carries the marker delimiters = ['', ''] exactly
\* when verification succeeded; a verification that raises leaves it without.
C10_MarkerOnlyOnSuccess ==
    VerifiedArray => (HasMarker(flags) <=> last.thrown = NoError)

\* C10 as amended: the marker is added before the error check, so whenever verify
\* is given an array the stored map carries it, also when verification raises.
C10_MarkerAlsoWhenThrowing ==
    VerifiedArray => HasMarker(flags)

\* C10 witness: verify raised its error and the stored map carries the marker.
C10_Witness ==
    VerifiedArray /\ last.thrown.type = "NonFatalError" /\ HasMarker(flags)

NoMatch == [matched |-> FALSE, g1 |-> <<>>, g2 |-> <<>>]
Split(e, j) == [matched |-> TRUE, g1 |-> SubSeq(e, 1, j - 1), g2 |-> SubSeq(e, j + 1, Len(e))]

\* C11: an entry with more than one "=" is split on its last "=": the key is all
\* before it, the value all after it, and the entry matches only if both sides of
\* that "=" are non-empty; otherwise it is malformed.
C11_SplitOnLastEq ==
    VerifiedArray
    => \A i \in 1..Len(Input) :
         Cardinality(EqPositions(Input[i])) > 1
         => LET j == Max(EqPositions(Input[i]))
            IN  last.matches[i] = IF 1 < j /\ j < Len(Input[i]) THEN Split(Input[i], j)
                                  ELSE NoMatch

\* The line of e that holds position j: from LineFrom to LineTo.
LineFrom(e, j) == Max({p \in 1..j : p = 1 \/ e[p - 1] = LT})
LineTo(e, j) == Min({p \in j..Len(e) : p = Len(e) \/ e[p + 1] = LT})
\* The "=" with a character of the same line before it and after it.
InnerEqs(e) ==
    {j \in EqPositions(e) : j > 1 /\ j < Len(e) /\ e[j - 1] # LT /\ e[j + 1] # LT}

\* C11 as amended: an entry matches if and only if some "=" has a character of the
\* same line on both sides.  It is then split, within the first line that holds such
\* an "=", on the last such "=" of that line: the key is the line before it, the
\* value the line after it.  Without line terminators: the last "=" that is neither
\* the first nor the last character of the entry.
C11_SplitOnLastInnerEq ==
    VerifiedArray
    => \A i \in 1..Len(Input) :
         LET e == Input[i]
         IN  IF InnerEqs(e) = {} THEN last.matches[i] = NoMatch
             ELSE LET from == LineFrom(e, Min(InnerEqs(e)))
                      to == LineTo(e, Min(InnerEqs(e)))
                      j == Max({x \in InnerEqs(e) : x <= to})
                  IN  last.matches[i] = [matched |-> TRUE, g1 |-> SubSeq(e, from, j - 1),
                                         g2 |-> SubSeq(e, j + 1, to)]

\* C11 witness: verify split an entry with two "=" on the first of them, the last
\* one having nothing after it.
C11_Witness ==
    /\ VerifiedArray
    /\ Input = << <<"a", EQ, "b", EQ>> >>
    /\ last.matches[1] = [matched |-> TRUE, g1 |-> <<"a">>, g2 |-> <<"b", EQ>>]

\* C12: registration never suspends: once the init hook has returned control to
\* the host, the input handler is subscribed and the replace flag is published, no
\* registration step is still pending, and no failure of the registration happens
\* after the hook, outside its try / catch.
C12_RegisteredWhenHookReturns ==
    hookDone => /\ InputChannel \in subscribed
                /\ published = <<FlagPayload>>
                /\ pc \notin {"awaitImport", "importFailed"}

\* verify raised its error on an array that holds a malformed entry or an entry
\* repeating an earlier key.
VerifyRaised ==
    /\ VerifiedArray
    /\ last.thrown.type = "NonFatalError"
    /\ MalformedOf(Input) # <<>> \/ DuplicatesOf(Input) # <<>>

\* C13: when verify has raised its error because of a malformed or duplicate entry,
\* a call of the transform configuration factory with those flags that follows does
\* not produce a transform configuration from the partial map.
C13_NoConfigFromPartialMap ==
    [][(/\ VerifyRaised
        /\ last'.op = "getInputPlugin"
        /\ last'.arg = "cliFlags"
        /\ last'.before = flags)
       => last'.ret # "plugin"]_vars

\* C14: once verify has run on a flags object whose replace value was an array,
\* every further call of verify on that flags object leaves flags.replace unchanged
\* and raises no error, also when the first call raised the verification error.
C14_RepeatedVerifyIsNoOp ==
    [][(verified # "no" /\ last'.op = "verify" /\ last' # last)
       => /\ last'.before = flags
          /\ flags' = flags
          /\ last'.thrown = NoError
          /\ last'.ret = "undefined"
          /\ verified' = verified]_vars

\* C14 witness: the first verify raised its error and left a partial map with a
\* key; verify was called again on it, raised nothing and left the map as it was.
C14_Witness ==
    /\ verified = "raised"
    /\ last.op = "verify"
    /\ last.before.kind = "object"
    /\ \E k \in DOMAIN last.before.props : last.before.props[k].t = "string"
    /\ flags = last.before
    /\ last.thrown = NoError

====
